---------------------------- MODULE Spec2Model ----------------------------
(***************************************************************************)
(* A model of src/src/Annotate.js: the pointer/keyboard/wheel handlers     *)
(* installed by initCanvas, the hit tests, the zoom and the tracked        *)
(* transform of trackTransforms.                                           *)
(*                                                                         *)
(* Numbers.  Canvas coordinates are held in fixed point: the integer v     *)
(* stands for the canvas pixel v / Unit.  The tracked matrix only ever is  *)
(* a uniform scale SCALE_FACTOR^n followed by a translation (the program   *)
(* never calls rotate or a skewing transform), so it is held as            *)
(*     xform = [n, ox, oy]   with  a = d = (11/10)^n,  b = c = 0,          *)
(*                                 e = -a * ox,  f = -d * oy,              *)
(* that is (ox, oy) = transformedPoint(0, 0).  Unit is chosen so that      *)
(* every value reachable with |n| <= MaxZoomExp is an exact integer.       *)
(*                                                                         *)
(* JavaScript null is written Null for objects and points, 0 for an        *)
(* annotation reference, "null" for a handle name, and 0 for the numbers   *)
(* lastX, lastY and the four offsets (null behaves as 0 in the arithmetic  *)
(* the handlers do with them).                                             *)
(***************************************************************************)
EXTENDS Integers, Sequences, FiniteSets, TLC

VARIABLES
    annotations,          \* this.annotations: the array, as a sequence of object ids
    objs,                 \* the annotation objects ever created, by id
    isMoving,             \* this.isMoving
    isResizing,           \* this.isResizing
    hoveredAnnotation,    \* this.hoveredAnnotation: an object id, 0 for null
    hoveredHandle,        \* this.hoveredHandle: a handle name, "null"
    selectedHandle,       \* this.selectedHandle
    offsetX_start, offsetY_start, offsetX_end, offsetY_end,
    movingAnnotation,     \* this.movingAnnotation: an object id, 0 for null
    isDrawingAnnotation,  \* this.isDrawingAnnotation
    newAnnotationStart,   \* this.newAnnotationStart: Null or <<point>>
    lastX, lastY,         \* this.lastX, this.lastY
    dragStart,            \* this.dragStart: Null or <<point>>
    dragged,              \* this.dragged: "null", "false", "true"
    xform,                \* the matrix tracked by trackTransforms
    savedTransforms,      \* the matrices kept by the save calls not yet restored
    currentOntology,      \* this.currentOntology ("null" for null)
    currentClassId,       \* this.currentClassId
    annotationColor,      \* this.annotationColor
    event,                \* the event handled last
    before,               \* what the handler that ran last found when it started
    dispatched,           \* annotationChanged events dispatched by that handler
    unnotified,           \* a record was created, edited or deleted since the last
                          \* annotationChanged event
    ops,                  \* the translate and scale calls made on the context since
                          \* the matrix was last the identity, kept by SpecTransform
    steps,                \* events handled so far
    zoomIns               \* consecutive zoom(1) calls since the scale was last 1

vars == <<annotations, objs, isMoving, isResizing, hoveredAnnotation, hoveredHandle,
          selectedHandle, offsetX_start, offsetY_start, offsetX_end, offsetY_end,
          movingAnnotation, isDrawingAnnotation, newAnnotationStart, lastX, lastY,
          dragStart, dragged, xform, currentOntology, currentClassId,
          annotationColor, event, before, dispatched, unnotified, ops, steps,
          zoomIns, savedTransforms>>

progVars == <<annotations, objs, isMoving, isResizing, hoveredAnnotation, hoveredHandle,
          selectedHandle, offsetX_start, offsetY_start, offsetX_end, offsetY_end,
          movingAnnotation, isDrawingAnnotation, newAnnotationStart, lastX, lastY,
          dragStart, dragged, xform, currentOntology, currentClassId,
          annotationColor>>

---------------------------------------------------------------------------
(* Bounds of the model *)

\* Spec: |n| stays within MaxZoomExp, so that the fixed point is exact.
MaxZoomExp == 1
\* Spec: events handled.
MaxEvents == 7
\* SpecZoom: consecutive zoom-ins counted.
MaxZoomIns == 50
\* SpecTransform: at most so many translate and scale calls compose the matrix
MaxOps == 5
\* SpecStack: calls made on the context
MaxCalls == 5

(* Program constants *)
MAX_ZOOM == 5
\* MIN_ZOOM = 0.2 = MIN_ZOOM_NUM / MIN_ZOOM_DEN
MIN_ZOOM_NUM == 2
MIN_ZOOM_DEN == 10
\* SCALE_FACTOR = 1.1 = SCALE_FACTOR_NUM / SCALE_FACTOR_DEN
SCALE_FACTOR_NUM == 11
SCALE_FACTOR_DEN == 10
HANDLE_SIZE == 15
annotationDetectionThreshold == 20
zoomLevel == 1
\* MIN_WIDTH = canvas.width * 0.01 = canvas.width / MIN_SIZE_DIV
MIN_SIZE_DIV == 100

\* The canvas of the readme (width="800" height="600"), displayed at half size.
canvas == [width |-> 800, height |-> 600, clientWidth |-> 400, clientHeight |-> 300]

Null == <<>>
Some(v) == <<v>>

---------------------------------------------------------------------------
(* Arithmetic *)

RECURSIVE Pow(_, _)
Pow(b, k) == IF k = 0 THEN 1 ELSE b * Pow(b, k - 1)

Abs(v) == IF v < 0 THEN -v ELSE v
Min(a, b) == IF a <= b THEN a ELSE b
Max(a, b) == IF a >= b THEN a ELSE b

RECURSIVE GCD(_, _)
GCD(a, b) == IF b = 0 THEN a ELSE GCD(b, a % b)

\* The fixed-point unit: divisible by 2 (width / 2), by SCALE_FACTOR_NUM^k and
\* SCALE_FACTOR_DEN^k for k <= MaxZoomExp.
Unit == 2 * Pow(SCALE_FACTOR_NUM * SCALE_FACTOR_DEN, MaxZoomExp)

Px(v) == v * Unit

\* p / q as a fraction in lowest terms (q > 0, p >= 0)
Frac(p, q) == LET g == GCD(p, q) IN [num |-> p \div g, den |-> q \div g]

(* Natural numbers of any size, as little-endian sequences of digits to the
   base 10000: SCALE_FACTOR^17 does not fit the checker's integers. *)
BigBase == Pow(10, 4)

RECURSIVE BigMulCarry(_, _, _)
BigMulCarry(ds, m, carry) ==
    IF ds = <<>>
    THEN IF carry = 0 THEN <<>>
         ELSE <<carry % BigBase>> \o BigMulCarry(<<>>, m, carry \div BigBase)
    ELSE LET v == Head(ds) * m + carry
         IN  <<v % BigBase>> \o BigMulCarry(Tail(ds), m, v \div BigBase)

BigMul(ds, m) == BigMulCarry(ds, m, 0)

RECURSIVE BigPow(_, _)
BigPow(b, k) == IF k = 0 THEN <<1>> ELSE BigMul(BigPow(b, k - 1), b)

RECURSIVE BigLessFrom(_, _, _)
BigLessFrom(a, b, i) ==
    IF i = 0 THEN FALSE
    ELSE IF a[i] # b[i] THEN a[i] < b[i]
    ELSE BigLessFrom(a, b, i - 1)

BigLess(a, b) ==
    IF Len(a) # Len(b) THEN Len(a) < Len(b) ELSE BigLessFrom(a, b, Len(a))

\* SCALE_FACTOR^k as the fraction num / den of two big numbers
ScalePow(k) ==
    IF k >= 0
    THEN [num |-> BigPow(SCALE_FACTOR_NUM, k), den |-> BigPow(SCALE_FACTOR_DEN, k)]
    ELSE [num |-> BigPow(SCALE_FACTOR_DEN, -k), den |-> BigPow(SCALE_FACTOR_NUM, -k)]

---------------------------------------------------------------------------
(* trackTransforms: the tracked matrix *)

Identity == [n |-> 0, ox |-> 0, oy |-> 0]

\* v / SCALE_FACTOR^k
DivByScale(v, k) ==
    IF v = 0 THEN 0
    ELSE IF k >= 0
    THEN (v \div Pow(SCALE_FACTOR_NUM, k)) * Pow(SCALE_FACTOR_DEN, k)
    ELSE (v \div Pow(SCALE_FACTOR_DEN, -k)) * Pow(SCALE_FACTOR_NUM, -k)

\* v * SCALE_FACTOR^k
MulByScale(v, k) == DivByScale(v, -k)

\* ctx.translate(dx, dy): xform = xform.translate(dx, dy)
Translate(m, dx, dy) == [m EXCEPT !.ox = @ - dx, !.oy = @ - dy]

\* A variant of Scale that multiplies on the other side, scaling the
\* translation already composed.
ScaleOnTheLeft(m, clicks) == [m EXCEPT !.n = @ + clicks]

\* ctx.scale(f, f) with f = SCALE_FACTOR^clicks: xform = xform.scaleNonUniform(f, f)
Scale(m, clicks) ==
    [n |-> m.n + clicks, ox |-> DivByScale(m.ox, clicks), oy |-> DivByScale(m.oy, clicks)]

\* ctx.transformedPoint(x, y): pt.matrixTransform(xform.inverse())
TransformedPoint(m, x, y) ==
    [x |-> m.ox + DivByScale(x, m.n), y |-> m.oy + DivByScale(y, m.n)]

\* A variant of InZoomRange that tests the scale before a zoom-in instead of
\* the potential one.
InZoomRangeOfCurrent(n) ==
    LET s == ScalePow(n)
        c == ScalePow(n - 1)
    IN  /\ BigLess(BigMul(s.den, MIN_ZOOM_NUM), BigMul(s.num, MIN_ZOOM_DEN))
        /\ BigLess(c.num, BigMul(c.den, MAX_ZOOM))

\* MIN_ZOOM < SCALE_FACTOR^n < MAX_ZOOM: the test of zoom on the potential scale
InZoomRange(n) ==
    LET s == ScalePow(n)
    IN  /\ BigLess(BigMul(s.den, MIN_ZOOM_NUM), BigMul(s.num, MIN_ZOOM_DEN))
        /\ BigLess(s.num, BigMul(s.den, MAX_ZOOM))

\* A variant of Zoom that scales about the origin instead of the pointer.
ZoomAboutOrigin(m, clicks, lx, ly) ==
    IF InZoomRange(m.n + clicks) THEN Scale(m, clicks) ELSE m

\* A variant of Zoom without the test on the potential scale.
ZoomUnchecked(m, clicks, lx, ly) ==
    LET pt == TransformedPoint(m, lx, ly)
    IN  Translate(Scale(Translate(m, pt.x, pt.y), clicks), -pt.x, -pt.y)

\* A variant of Zoom that returns from the pointer only after a scaling.
ZoomWithoutReturn(m, clicks, lx, ly) ==
    LET pt == TransformedPoint(m, lx, ly)
        m1 == Translate(m, pt.x, pt.y)
    IN  IF InZoomRange(m1.n + clicks)
        THEN Translate(Scale(m1, clicks), -pt.x, -pt.y)
        ELSE m1

\* zoom(clicks), on the matrix; the redraw it ends with is in the handlers
Zoom(m, clicks, lx, ly) ==
    LET pt == TransformedPoint(m, lx, ly)
        m1 == Translate(m, pt.x, pt.y)
        m2 == IF InZoomRange(m1.n + clicks) THEN Scale(m1, clicks) ELSE m1
    IN  Translate(m2, -pt.x, -pt.y)

---------------------------------------------------------------------------
(* Coordinates of a pointer event *)

\* redraw: scaleX = canvas.clientWidth / canvas.width; the handlers divide
\* evt.offsetX by it.
ToCanvasX(offsetX) == Px((offsetX * canvas.width) \div canvas.clientWidth)
ToCanvasY(offsetY) == Px((offsetY * canvas.height) \div canvas.clientHeight)

---------------------------------------------------------------------------
(* Geometry and hit tests *)

Handles == <<"top-left", "top-right", "bottom-left", "bottom-right",
             "top-middle", "bottom-middle", "left-middle", "right-middle">>

Reverse(s) == [i \in 1..Len(s) |-> s[Len(s) + 1 - i]]

getAnnotationDimensions(a) ==
    LET startX == Min(a.start.x, a.end.x)
        endX   == Max(a.start.x, a.end.x)
        startY == Min(a.start.y, a.end.y)
        endY   == Max(a.start.y, a.end.y)
    IN  [startX |-> startX, startY |-> startY, width |-> Abs(endX - startX),
         height |-> Abs(endY - startY), endX |-> endX, endY |-> endY]

\* the test of isHoveringOverAnnotation on one annotation
InExpandedBox(x, y, a) ==
    LET d == getAnnotationDimensions(a)
        t == Px(annotationDetectionThreshold)
    IN  /\ x >= d.startX - t
        /\ x <= d.startX + d.width + t
        /\ y >= d.startY - t
        /\ y <= d.startY + d.height + t

\* A variant of isHoveringOverAnnotation that marks the annotation it returns
\* and leaves the selected flag of the others as it was.
isHoveringOverAnnotationKeeping(x, y, arr, os) ==
    LET r    == Reverse(arr)
        hits == {i \in 1..Len(r) : InExpandedBox(x, y, os[r[i]])}
        k    == IF hits = {} THEN Len(r) + 1
                ELSE CHOOSE i \in hits : \A j \in hits : i <= j
    IN  [annotation  |-> IF hits = {} THEN 0 ELSE r[k],
         annotations |-> r,
         objs        |-> [id \in DOMAIN os |->
                            IF hits # {} /\ r[k] = id
                            THEN [os[id] EXCEPT !.selected = TRUE]
                            ELSE os[id]]]

\* isHoveringOverAnnotation(x, y) on the array arr and the objects os: the array
\* is reversed in place and scanned; the objects scanned get their selected flag.
isHoveringOverAnnotation(x, y, arr, os) ==
    LET r    == Reverse(arr)
        hits == {i \in 1..Len(r) : InExpandedBox(x, y, os[r[i]])}
        k    == IF hits = {} THEN Len(r) + 1
                ELSE CHOOSE i \in hits : \A j \in hits : i <= j
        scanned(id) == \E i \in 1..Len(r) : i <= k /\ r[i] = id
    IN  [annotation  |-> IF hits = {} THEN 0 ELSE r[k],
         annotations |-> r,
         objs        |-> [id \in DOMAIN os |->
                            IF scanned(id)
                            THEN [os[id] EXCEPT !.selected = (hits # {} /\ r[k] = id)]
                            ELSE os[id]]]

\* A variant of InHandle that leaves the sides of the square out.
InHandleOpen(x, y, cx, cy) ==
    /\ x > cx - Px(HANDLE_SIZE)
    /\ x < cx + Px(HANDLE_SIZE)
    /\ y > cy - Px(HANDLE_SIZE)
    /\ y < cy + Px(HANDLE_SIZE)

\* the square of half-side HANDLE_SIZE around (cx, cy)
InHandle(x, y, cx, cy) ==
    /\ x >= cx - Px(HANDLE_SIZE)
    /\ x <= cx + Px(HANDLE_SIZE)
    /\ y >= cy - Px(HANDLE_SIZE)
    /\ y <= cy + Px(HANDLE_SIZE)

isHoveringOverHandle(x, y, a) ==
    LET d == getAnnotationDimensions(a)
    IN  IF InHandle(x, y, d.startX, d.startY) THEN "top-left"
        ELSE IF InHandle(x, y, d.startX + d.width, d.startY) THEN "top-right"
        ELSE IF InHandle(x, y, d.startX, d.startY + d.height) THEN "bottom-left"
        ELSE IF InHandle(x, y, d.startX + d.width, d.startY + d.height) THEN "bottom-right"
        ELSE IF InHandle(x, y, d.startX + d.width \div 2, d.startY) THEN "top-middle"
        ELSE IF InHandle(x, y, d.startX + d.width \div 2, d.startY + d.height) THEN "bottom-middle"
        ELSE IF InHandle(x, y, d.startX, d.startY + d.height \div 2) THEN "left-middle"
        ELSE IF InHandle(x, y, d.startX + d.width, d.startY + d.height \div 2) THEN "right-middle"
        ELSE "null"

\* A variant of Redraw that also takes the deleted annotations out of the array.
RedrawDroppingDeleted(arr) ==
    SelectSeq(Reverse(arr),
              LAMBDA id : id \in DOMAIN objs => objs[id].state # "deleted")

\* redraw(): what it does to the program's state is to reverse the array in place
Redraw(arr) == Reverse(arr)

\* Math.max(0, Math.min(v, limit))
Clamp(v, limit) == Max(0, Min(v, limit))

---------------------------------------------------------------------------
(* The state after construction (lines 56-142), with the frame loaded and
   drawn once, so that scaleX and scaleY are set. *)

Init ==
    /\ annotations = <<>>
    /\ objs = <<>>
    /\ isMoving = FALSE
    /\ isResizing = FALSE
    /\ hoveredAnnotation = 0
    /\ hoveredHandle = "null"
    /\ selectedHandle = "null"
    /\ offsetX_start = 0 /\ offsetY_start = 0 /\ offsetX_end = 0 /\ offsetY_end = 0
    /\ movingAnnotation = 0
    /\ isDrawingAnnotation = FALSE
    /\ newAnnotationStart = Null
    /\ lastX = 0 /\ lastY = 0
    /\ dragStart = Null
    /\ dragged = "null"
    /\ xform = Identity
    /\ currentOntology = "Car"
    /\ currentClassId = 1
    /\ annotationColor = "#FF0000"
    /\ event = [type |-> "init"]
    /\ before = [isDrawingAnnotation |-> FALSE, newAnnotationStart |-> Null,
                 length |-> 0, xform |-> Identity]
    /\ dispatched = 0
    /\ unnotified = FALSE
    /\ ops = <<>>
    /\ savedTransforms = <<>>
    /\ steps = 0
    /\ zoomIns = 0

---------------------------------------------------------------------------
(* The handlers.  evt is the event: offsetX, offsetY in displayed pixels,
   shiftKey, key, delta. *)

\* A variant of MouseDown that moves the hovered annotation even when one of
\* its handles is hovered.
MouseDownMovingFirst(evt) ==
    /\ event' = [type |-> "mousedown", shiftKey |-> evt.shiftKey]
    /\ dispatched' = 0
    /\ IF evt.shiftKey /\ ~isResizing
       THEN /\ lastX' = ToCanvasX(evt.offsetX)
            /\ lastY' = ToCanvasY(evt.offsetY)
            /\ dragStart' = Some(TransformedPoint(xform, lastX', lastY'))
            /\ dragged' = "false"
            /\ UNCHANGED <<isResizing, selectedHandle, isMoving, movingAnnotation,
                           offsetX_start, offsetY_start, offsetX_end, offsetY_end,
                           isDrawingAnnotation, newAnnotationStart>>
       ELSE IF hoveredAnnotation # 0
       THEN /\ isMoving' = TRUE
            /\ movingAnnotation' = hoveredAnnotation
            /\ offsetX_start' = lastX - objs[hoveredAnnotation].start.x
            /\ offsetY_start' = lastY - objs[hoveredAnnotation].start.y
            /\ offsetX_end' = lastX - objs[hoveredAnnotation].end.x
            /\ offsetY_end' = lastY - objs[hoveredAnnotation].end.y
            /\ UNCHANGED <<lastX, lastY, dragStart, dragged, isResizing,
                           selectedHandle, isDrawingAnnotation, newAnnotationStart>>
       ELSE IF currentOntology # "null"
       THEN /\ isDrawingAnnotation' = TRUE
            /\ newAnnotationStart' = Some(TransformedPoint(xform, lastX, lastY))
            /\ UNCHANGED <<lastX, lastY, dragStart, dragged, isResizing, selectedHandle,
                           isMoving, movingAnnotation, offsetX_start, offsetY_start,
                           offsetX_end, offsetY_end>>
       ELSE /\ isMoving' = FALSE
            /\ isResizing' = FALSE
            /\ UNCHANGED <<lastX, lastY, dragStart, dragged, selectedHandle,
                           movingAnnotation, offsetX_start, offsetY_start,
                           offsetX_end, offsetY_end, isDrawingAnnotation,
                           newAnnotationStart>>
    /\ UNCHANGED <<annotations, objs, hoveredAnnotation, hoveredHandle, xform,
                   currentOntology, currentClassId, annotationColor>>

\* the 'mousedown' listener
MouseDown(evt) ==
    /\ event' = [type |-> "mousedown", shiftKey |-> evt.shiftKey]
    /\ dispatched' = 0
    /\ IF evt.shiftKey /\ ~isResizing
       THEN /\ lastX' = ToCanvasX(evt.offsetX)
            /\ lastY' = ToCanvasY(evt.offsetY)
            /\ dragStart' = Some(TransformedPoint(xform, lastX', lastY'))
            /\ dragged' = "false"
            /\ UNCHANGED <<isResizing, selectedHandle, isMoving, movingAnnotation,
                           offsetX_start, offsetY_start, offsetX_end, offsetY_end,
                           isDrawingAnnotation, newAnnotationStart>>
       ELSE IF hoveredAnnotation # 0
       THEN IF hoveredHandle # "null"
            THEN /\ isResizing' = TRUE
                 /\ selectedHandle' = hoveredHandle
                 /\ UNCHANGED <<lastX, lastY, dragStart, dragged, isMoving,
                                movingAnnotation, offsetX_start, offsetY_start,
                                offsetX_end, offsetY_end, isDrawingAnnotation,
                                newAnnotationStart>>
            ELSE /\ isMoving' = TRUE
                 /\ movingAnnotation' = hoveredAnnotation
                 /\ offsetX_start' = lastX - objs[hoveredAnnotation].start.x
                 /\ offsetY_start' = lastY - objs[hoveredAnnotation].start.y
                 /\ offsetX_end' = lastX - objs[hoveredAnnotation].end.x
                 /\ offsetY_end' = lastY - objs[hoveredAnnotation].end.y
                 /\ UNCHANGED <<lastX, lastY, dragStart, dragged, isResizing,
                                selectedHandle, isDrawingAnnotation, newAnnotationStart>>
       ELSE IF currentOntology # "null"
       THEN /\ isDrawingAnnotation' = TRUE
            /\ newAnnotationStart' = Some(TransformedPoint(xform, lastX, lastY))
            /\ UNCHANGED <<lastX, lastY, dragStart, dragged, isResizing, selectedHandle,
                           isMoving, movingAnnotation, offsetX_start, offsetY_start,
                           offsetX_end, offsetY_end>>
       ELSE /\ isMoving' = FALSE
            /\ isResizing' = FALSE
            /\ UNCHANGED <<lastX, lastY, dragStart, dragged, selectedHandle,
                           movingAnnotation, offsetX_start, offsetY_start,
                           offsetX_end, offsetY_end, isDrawingAnnotation,
                           newAnnotationStart>>
    /\ UNCHANGED <<annotations, objs, hoveredAnnotation, hoveredHandle, xform,
                   currentOntology, currentClassId, annotationColor>>

\* A variant of recomputesHover that lets a resize recompute the hover too.
recomputesHoverAlways == TRUE

\* mousemove, line 228: the hover is recomputed unless a resize is going on
recomputesHover == ~isResizing

\* A variant of MovedAnnotation that recomputes the relative coordinates too.
MovedAnnotationRecomputing(a, lx, ly) ==
    LET sx == Clamp(lx - offsetX_start, Px(canvas.width))
        sy == Clamp(ly - offsetY_start, Px(canvas.height))
        ex == Clamp(lx - offsetX_end, Px(canvas.width))
        ey == Clamp(ly - offsetY_end, Px(canvas.height))
    IN  [a EXCEPT !.start = [x |-> sx, y |-> sy],
                  !.end   = [x |-> ex, y |-> ey],
                  !.start_relativ = [x |-> Frac(sx, Px(canvas.width)),
                                     y |-> Frac(sy, Px(canvas.height))],
                  !.end_relativ   = [x |-> Frac(ex, Px(canvas.width)),
                                     y |-> Frac(ey, Px(canvas.height))],
                  !.state = "edited"]

\* mousemove, lines 247-267: the moved annotation
MovedAnnotation(a, lx, ly) ==
    [a EXCEPT !.start = [x |-> Clamp(lx - offsetX_start, Px(canvas.width)),
                         y |-> Clamp(ly - offsetY_start, Px(canvas.height))],
              !.end   = [x |-> Clamp(lx - offsetX_end, Px(canvas.width)),
                         y |-> Clamp(ly - offsetY_end, Px(canvas.height))],
              !.state = "edited"]

\* A variant of ResizedAnnotation without the clamp to the canvas.
ResizedAnnotationUnclamped(a, handle, pt) ==
    [a EXCEPT !.start = [x |-> IF handle \in {"top-left", "bottom-left", "left-middle"}
                               THEN pt.x ELSE a.start.x,
                         y |-> IF handle \in {"top-left", "top-right", "top-middle"}
                               THEN pt.y ELSE a.start.y],
              !.end   = [x |-> IF handle \in {"top-right", "bottom-right", "right-middle"}
                               THEN pt.x ELSE a.end.x,
                         y |-> IF handle \in {"bottom-left", "bottom-right", "bottom-middle"}
                               THEN pt.y ELSE a.end.y],
              !.state = "edited"]

\* mousemove, lines 270-323: the resized annotation
ResizedAnnotation(a, handle, pt) ==
    LET newStartX == IF handle \in {"top-left", "bottom-left", "left-middle"}
                     THEN pt.x ELSE a.start.x
        newStartY == IF handle \in {"top-left", "top-right", "top-middle"}
                     THEN pt.y ELSE a.start.y
        newEndX   == IF handle \in {"top-right", "bottom-right", "right-middle"}
                     THEN pt.x ELSE a.end.x
        newEndY   == IF handle \in {"bottom-left", "bottom-right", "bottom-middle"}
                     THEN pt.y ELSE a.end.y
    IN  [a EXCEPT !.start = [x |-> Clamp(newStartX, Px(canvas.width)),
                             y |-> Clamp(newStartY, Px(canvas.height))],
                  !.end   = [x |-> Clamp(newEndX, Px(canvas.width)),
                             y |-> Clamp(newEndY, Px(canvas.height))],
                  !.state = "edited"]

\* the 'mousemove' listener
MouseMove(evt) ==
    LET lx   == ToCanvasX(evt.offsetX)
        ly   == ToCanvasY(evt.offsetY)
        \* canvas dragging
        m1   == IF dragStart # Null
                THEN LET p == TransformedPoint(xform, lx, ly)
                     IN  Translate(xform, p.x - dragStart[1].x, p.y - dragStart[1].y)
                ELSE xform
        pt   == TransformedPoint(m1, lx, ly)
        \* hover, unless resizing
        hov  == IF recomputesHover
                THEN isHoveringOverAnnotation(pt.x, pt.y, annotations, objs)
                ELSE [annotation |-> hoveredAnnotation, annotations |-> annotations,
                      objs |-> objs]
        hh   == IF recomputesHover /\ hov.annotation # 0
                THEN isHoveringOverHandle(pt.x, pt.y, hov.objs[hov.annotation])
                ELSE hoveredHandle
        arr1 == IF recomputesHover THEN Redraw(hov.annotations) ELSE hov.annotations
        \* moving
        os2  == IF movingAnnotation # 0
                THEN [hov.objs EXCEPT ![movingAnnotation] = MovedAnnotation(@, lx, ly)]
                ELSE hov.objs
        arr2 == IF movingAnnotation # 0 THEN Redraw(arr1) ELSE arr1
        \* resizing
        os3  == IF isResizing
                THEN [os2 EXCEPT ![hov.annotation] =
                                    ResizedAnnotation(@, selectedHandle, pt)]
                ELSE os2
        arr3 == IF isResizing THEN Redraw(arr2) ELSE arr2
        \* drawing: the preview
        arr4 == IF isDrawingAnnotation THEN Redraw(arr3) ELSE arr3
    IN  /\ event' = [type |-> "mousemove"]
        /\ dispatched' = 0
        /\ lastX' = lx
        /\ lastY' = ly
        /\ dragged' = "true"
        /\ xform' = m1
        /\ hoveredAnnotation' = hov.annotation
        /\ hoveredHandle' = hh
        /\ objs' = os3
        /\ annotations' = arr4
        /\ UNCHANGED <<isMoving, isResizing, selectedHandle, offsetX_start,
                       offsetY_start, offsetX_end, offsetY_end, movingAnnotation,
                       isDrawingAnnotation, newAnnotationStart, dragStart,
                       currentOntology, currentClassId, annotationColor>>

\* A variant of NewAnnotation that stores the press and release points as
\* dragged, without normalising them.
NewAnnotationAsDragged(s, pt) ==
    [start_relativ |-> [x |-> Frac(s.x, Px(canvas.width)),
                        y |-> Frac(s.y, Px(canvas.height))],
     end_relativ   |-> [x |-> Frac(pt.x, Px(canvas.width)),
                        y |-> Frac(pt.y, Px(canvas.height))],
     start |-> s,
     end |-> pt,
     name |-> currentOntology,
     class_id |-> currentClassId,
     annotationColor |-> annotationColor,
     state |-> "unsaved",
     ID |-> "null",
     selected |-> FALSE]

\* mouseup, lines 356-397: the record pushed for a draw from s to the point pt
NewAnnotation(s, pt) ==
    LET normalizedStart == [x |-> Min(s.x, pt.x), y |-> Min(s.y, pt.y)]
        normalizedEnd   == [x |-> Max(s.x, pt.x), y |-> Max(s.y, pt.y)]
    IN  [start_relativ |-> [x |-> Frac(normalizedStart.x, Px(canvas.width)),
                            y |-> Frac(normalizedStart.y, Px(canvas.height))],
         end_relativ   |-> [x |-> Frac(normalizedEnd.x, Px(canvas.width)),
                            y |-> Frac(normalizedEnd.y, Px(canvas.height))],
         start |-> normalizedStart,
         end |-> normalizedEnd,
         name |-> currentOntology,
         class_id |-> currentClassId,
         annotationColor |-> annotationColor,
         state |-> "unsaved",
         ID |-> "null",
         selected |-> FALSE]

\* A variant of MeetsMinimumSize that tests the width only.
MeetsMinimumWidth(s, pt) ==
    Max(s.x, pt.x) - Min(s.x, pt.x) >= Px(canvas.width) \div MIN_SIZE_DIV

\* mouseup, lines 366-375: the minimum size check
MeetsMinimumSize(s, pt) ==
    LET width  == Max(s.x, pt.x) - Min(s.x, pt.x)
        height == Max(s.y, pt.y) - Min(s.y, pt.y)
    IN  /\ width >= Px(canvas.width) \div MIN_SIZE_DIV
        /\ height >= Px(canvas.height) \div MIN_SIZE_DIV

\* mouseup: the clicks of its zoom call
ClickZoom(evt) == IF evt.shiftKey THEN -zoomLevel ELSE zoomLevel

\* mouseup: the point of the release, after the zoom of a click
ReleasePoint(evt) ==
    LET m1 == IF dragged # "true" THEN Zoom(xform, ClickZoom(evt), lastX, lastY)
              ELSE xform
    IN  TransformedPoint(m1, lastX, lastY)

\* mouseup: a record is pushed
DrawAccepted(evt) ==
    /\ isDrawingAnnotation
    /\ MeetsMinimumSize(newAnnotationStart[1], ReleasePoint(evt))

\* A variant of resetInteractionFlags that forgets selectedHandle.
resetInteractionFlagsKeepingHandle ==
    /\ movingAnnotation' = 0
    /\ isResizing' = FALSE
    /\ isDrawingAnnotation' = FALSE
    /\ newAnnotationStart' = Null
    /\ selectedHandle' = selectedHandle

\* resetInteractionFlags()
resetInteractionFlags ==
    /\ movingAnnotation' = 0
    /\ isResizing' = FALSE
    /\ isDrawingAnnotation' = FALSE
    /\ newAnnotationStart' = Null
    /\ selectedHandle' = "null"

\* the 'mouseup' listener
MouseUp(evt) ==
    LET zooms == dragged # "true"
        m1    == IF zooms THEN Zoom(xform, ClickZoom(evt), lastX, lastY) ELSE xform
        arr1  == IF zooms THEN Redraw(annotations) ELSE annotations
    IN  /\ event' = [type |-> "mouseup", shiftKey |-> evt.shiftKey]
        /\ dragStart' = Null
        /\ xform' = m1
        /\ IF DrawAccepted(evt)
           THEN /\ objs' = Append(objs, NewAnnotation(newAnnotationStart[1],
                                                      ReleasePoint(evt)))
                /\ annotations' = Redraw(Append(arr1, Len(objs) + 1))
           ELSE /\ objs' = objs
                /\ annotations' = arr1
        /\ dispatched' = 1
        /\ resetInteractionFlags
        /\ UNCHANGED <<isMoving, hoveredAnnotation, hoveredHandle, offsetX_start,
                       offsetY_start, offsetX_end, offsetY_end, lastX, lastY, dragged,
                       currentOntology, currentClassId, annotationColor>>

\* A variant of KeyDown that marks the hovered annotation without dispatching
\* annotationChanged.
KeyDownSilent(evt) ==
    /\ event' = [type |-> "keydown", key |-> evt.key]
    /\ IF evt.key \in {"Delete", "Backspace"} /\ hoveredAnnotation # 0
       THEN /\ objs' = [objs EXCEPT ![hoveredAnnotation].state = "deleted"]
            /\ annotations' = Redraw(annotations)
       ELSE UNCHANGED <<objs, annotations>>
    /\ dispatched' = 0
    /\ UNCHANGED <<isMoving, isResizing, hoveredAnnotation, hoveredHandle,
                   selectedHandle, offsetX_start, offsetY_start, offsetX_end,
                   offsetY_end, movingAnnotation, isDrawingAnnotation,
                   newAnnotationStart, lastX, lastY, dragStart, dragged, xform,
                   currentOntology, currentClassId, annotationColor>>

\* A variant of KeyDown that removes the hovered annotation from the collection
\* instead of marking it.
KeyDownRemoving(evt) ==
    /\ event' = [type |-> "keydown", key |-> evt.key]
    /\ IF evt.key \in {"Delete", "Backspace"} /\ hoveredAnnotation # 0
       THEN /\ annotations' =
                  Redraw(SelectSeq(annotations, LAMBDA id : id # hoveredAnnotation))
            /\ dispatched' = 1
       ELSE /\ UNCHANGED annotations
            /\ dispatched' = 0
    /\ UNCHANGED <<objs, isMoving, isResizing, hoveredAnnotation, hoveredHandle,
                   selectedHandle, offsetX_start, offsetY_start, offsetX_end,
                   offsetY_end, movingAnnotation, isDrawingAnnotation,
                   newAnnotationStart, lastX, lastY, dragStart, dragged, xform,
                   currentOntology, currentClassId, annotationColor>>

\* the 'keydown' listener
KeyDown(evt) ==
    /\ event' = [type |-> "keydown", key |-> evt.key]
    /\ IF evt.key \in {"Delete", "Backspace"} /\ hoveredAnnotation # 0
       THEN /\ objs' = [objs EXCEPT ![hoveredAnnotation].state = "deleted"]
            /\ annotations' = Redraw(annotations)
            /\ dispatched' = 1
       ELSE /\ UNCHANGED <<objs, annotations>>
            /\ dispatched' = 0
    /\ UNCHANGED <<isMoving, isResizing, hoveredAnnotation, hoveredHandle,
                   selectedHandle, offsetX_start, offsetY_start, offsetX_end,
                   offsetY_end, movingAnnotation, isDrawingAnnotation,
                   newAnnotationStart, lastX, lastY, dragStart, dragged, xform,
                   currentOntology, currentClassId, annotationColor>>

\* handleScroll, with delta = evt.wheelDelta / 40 or -evt.detail
HandleScroll(evt) ==
    /\ event' = [type |-> "wheel", delta |-> evt.delta]
    /\ dispatched' = 0
    /\ IF evt.delta # 0
       THEN /\ xform' = Zoom(xform, evt.delta, lastX, lastY)
            /\ annotations' = Redraw(annotations)
       ELSE UNCHANGED <<xform, annotations>>
    /\ UNCHANGED <<objs, isMoving, isResizing, hoveredAnnotation, hoveredHandle,
                   selectedHandle, offsetX_start, offsetY_start, offsetX_end,
                   offsetY_end, movingAnnotation, isDrawingAnnotation,
                   newAnnotationStart, lastX, lastY, dragStart, dragged,
                   currentOntology, currentClassId, annotationColor>>

\* A variant of ResetTransform that resets the scale and keeps the translation.
ResetTransformScaleOnly ==
    /\ event' = [type |-> "resetTransform"]
    /\ dispatched' = 0
    /\ xform' = [xform EXCEPT !.n = 0]
    /\ annotations' = Redraw(annotations)
    /\ UNCHANGED <<objs, isMoving, isResizing, hoveredAnnotation, hoveredHandle,
                   selectedHandle, offsetX_start, offsetY_start, offsetX_end,
                   offsetY_end, movingAnnotation, isDrawingAnnotation,
                   newAnnotationStart, lastX, lastY, dragStart, dragged,
                   currentOntology, currentClassId, annotationColor>>

\* resetTransform(): ctx.setTransform(1, 0, 0, 1, 0, 0), redraw()
ResetTransform ==
    /\ event' = [type |-> "resetTransform"]
    /\ dispatched' = 0
    /\ xform' = Identity
    /\ annotations' = Redraw(annotations)
    /\ UNCHANGED <<objs, isMoving, isResizing, hoveredAnnotation, hoveredHandle,
                   selectedHandle, offsetX_start, offsetY_start, offsetX_end,
                   offsetY_end, movingAnnotation, isDrawingAnnotation,
                   newAnnotationStart, lastX, lastY, dragStart, dragged,
                   currentOntology, currentClassId, annotationColor>>

---------------------------------------------------------------------------
(* The environment of Spec: a pointer over the canvas, the keyboard, the
   wheel and the host's reset of the view. *)

\* pointer positions, in displayed pixels
DevicePoints == { [offsetX |-> 0,   offsetY |-> 0],
                  [offsetX |-> 50,  offsetY |-> 50],
                  [offsetX |-> 150, offsetY |-> 125],
                  [offsetX |-> 150, offsetY |-> 65],
                  [offsetX |-> 395, offsetY |-> 50] }

Keys == {"Delete", "Backspace", "Enter"}

WheelDeltas == {-1, 1}

\* a press or a release happens where the pointer is
AtPointer(evt) == ToCanvasX(evt.offsetX) = lastX /\ ToCanvasY(evt.offsetY) = lastY

PointerEvents ==
    { [offsetX |-> ((lastX \div Unit) * canvas.clientWidth) \div canvas.width,
       offsetY |-> ((lastY \div Unit) * canvas.clientHeight) \div canvas.height,
       shiftKey |-> sh] : sh \in BOOLEAN }

\* the scale after a zoom by clicks stays where the fixed point is exact
Representable(clicks) == Abs(xform.n + clicks) <= MaxZoomExp

Budget == steps < MaxEvents

\* the handler has created a record or changed the geometry or the state of one
Mutated ==
    \/ Len(objs') # Len(objs)
    \/ \E id \in DOMAIN objs :
          \/ objs'[id].start # objs[id].start
          \/ objs'[id].end # objs[id].end
          \/ objs'[id].state # objs[id].state

\* the history kept for the properties below
Observe ==
    /\ before' = [isDrawingAnnotation |-> isDrawingAnnotation,
                  newAnnotationStart |-> newAnnotationStart,
                  length |-> Len(annotations),
                  xform |-> xform]
    /\ unnotified' = IF dispatched' > 0 THEN FALSE ELSE unnotified \/ Mutated

StepMouseDown ==
    /\ Budget
    /\ \E evt \in PointerEvents : AtPointer(evt) /\ MouseDown(evt)
    /\ Observe
    /\ steps' = steps + 1
    /\ UNCHANGED <<ops, savedTransforms, zoomIns>>

StepMouseMove ==
    /\ Budget
    /\ \E p \in DevicePoints : MouseMove(p)
    /\ Observe
    /\ steps' = steps + 1
    /\ UNCHANGED <<ops, savedTransforms, zoomIns>>

StepMouseUp ==
    /\ Budget
    /\ \E evt \in PointerEvents :
          /\ AtPointer(evt)
          /\ dragged # "true" => Representable(ClickZoom(evt))
          /\ MouseUp(evt)
    /\ Observe
    /\ steps' = steps + 1
    /\ UNCHANGED <<ops, savedTransforms, zoomIns>>

StepKeyDown ==
    /\ Budget
    /\ \E k \in Keys : KeyDown([key |-> k])
    /\ Observe
    /\ steps' = steps + 1
    /\ UNCHANGED <<ops, savedTransforms, zoomIns>>

StepWheel ==
    /\ Budget
    /\ \E d \in WheelDeltas : Representable(d) /\ HandleScroll([delta |-> d])
    /\ Observe
    /\ steps' = steps + 1
    /\ UNCHANGED <<ops, savedTransforms, zoomIns>>

StepResetTransform ==
    /\ Budget
    /\ ResetTransform
    /\ Observe
    /\ steps' = steps + 1
    /\ UNCHANGED <<ops, savedTransforms, zoomIns>>

Next ==
    \/ StepMouseDown
    \/ StepMouseMove
    \/ StepMouseUp
    \/ StepKeyDown
    \/ StepWheel
    \/ StepResetTransform

Spec == Init /\ [][Next]_vars

---------------------------------------------------------------------------
(* The environment of SpecZoom: clicks, wheel turns, drags and resets of the
   view with the pointer at the origin of the canvas, where the translation
   of the tracked matrix stays 0 at every scale; the scale is not bounded by
   the model. *)

Origin == [offsetX |-> 0, offsetY |-> 0]

ZoomWheelDeltas == {-3, -1, 1, 3}

\* the count of consecutive zoom(1) calls after a step that called zoom(clicks);
\* -1: not a run of zoom-ins from scale 1
CountZoomIns(clicks) ==
    IF xform'.n = 0 THEN 0
    ELSE IF clicks = 1 /\ zoomIns >= 0 /\ zoomIns < MaxZoomIns THEN zoomIns + 1
    ELSE -1

ZoomMouseDown ==
    /\ \E evt \in PointerEvents : AtPointer(evt) /\ MouseDown(evt)
    /\ Observe
    /\ UNCHANGED <<ops, savedTransforms, steps, zoomIns>>

ZoomMouseMove ==
    /\ MouseMove(Origin)
    /\ Observe
    /\ UNCHANGED <<ops, savedTransforms, steps, zoomIns>>

ZoomMouseUp ==
    /\ \E evt \in PointerEvents :
          /\ AtPointer(evt)
          /\ MouseUp(evt)
          /\ zoomIns' = IF dragged # "true" THEN CountZoomIns(ClickZoom(evt))
                        ELSE zoomIns
    /\ Observe
    /\ UNCHANGED <<ops, savedTransforms, steps>>

ZoomWheel ==
    /\ \E d \in ZoomWheelDeltas :
          /\ HandleScroll([delta |-> d])
          /\ zoomIns' = CountZoomIns(d)
    /\ Observe
    /\ UNCHANGED <<ops, savedTransforms, steps>>

ZoomResetTransform ==
    /\ ResetTransform
    /\ Observe
    /\ zoomIns' = 0
    /\ UNCHANGED <<ops, savedTransforms, steps>>

NextZoom ==
    \/ ZoomMouseDown
    \/ ZoomMouseMove
    \/ ZoomMouseUp
    \/ ZoomWheel
    \/ ZoomResetTransform

SpecZoom == Init /\ [][NextZoom]_vars

---------------------------------------------------------------------------
(* SpecTransform: the context operations that trackTransforms overrides,
   called in any order.  ops keeps the calls, so that the transform the
   canvas composes from them can be applied to a point call by call. *)

\* offsets and points are multiples of this unit, which every scale the
\* matrix goes through divides exactly
TransformUnit == Pow(SCALE_FACTOR_NUM * SCALE_FACTOR_DEN, 2 * MaxZoomExp)

Offsets == {[dx |-> dx * TransformUnit, dy |-> dy * TransformUnit] :
                dx \in {-1, 1}, dy \in {0, 1}}

\* ctx.translate(dx, dy)
CtxTranslate ==
    /\ Len(ops) < MaxOps
    /\ \E o \in Offsets :
          /\ xform' = Translate(xform, o.dx, o.dy)
          /\ ops' = Append(ops, [op |-> "translate", dx |-> o.dx, dy |-> o.dy])
    /\ event' = [type |-> "translate"]
    /\ UNCHANGED <<annotations, objs, isMoving, isResizing, hoveredAnnotation,
                   hoveredHandle, selectedHandle, offsetX_start, offsetY_start,
                   offsetX_end, offsetY_end, movingAnnotation, isDrawingAnnotation,
                   newAnnotationStart, lastX, lastY, dragStart, dragged,
                   currentOntology, currentClassId, annotationColor, before,
                   dispatched, unnotified, steps, zoomIns,
                   savedTransforms>>

\* ctx.scale(f, f) with f = SCALE_FACTOR^clicks
CtxScale ==
    /\ Len(ops) < MaxOps
    /\ \E clicks \in {-1, 1} :
          /\ Representable(clicks)
          /\ xform' = Scale(xform, clicks)
          /\ ops' = Append(ops, [op |-> "scale", clicks |-> clicks])
    /\ event' = [type |-> "scale"]
    /\ UNCHANGED <<annotations, objs, isMoving, isResizing, hoveredAnnotation,
                   hoveredHandle, selectedHandle, offsetX_start, offsetY_start,
                   offsetX_end, offsetY_end, movingAnnotation, isDrawingAnnotation,
                   newAnnotationStart, lastX, lastY, dragStart, dragged,
                   currentOntology, currentClassId, annotationColor, before,
                   dispatched, unnotified, steps, zoomIns,
                   savedTransforms>>

\* ctx.setTransform(1, 0, 0, 1, 0, 0)
CtxSetTransform ==
    /\ xform' = Identity
    /\ ops' = <<>>
    /\ event' = [type |-> "setTransform"]
    /\ UNCHANGED <<annotations, objs, isMoving, isResizing, hoveredAnnotation,
                   hoveredHandle, selectedHandle, offsetX_start, offsetY_start,
                   offsetX_end, offsetY_end, movingAnnotation, isDrawingAnnotation,
                   newAnnotationStart, lastX, lastY, dragStart, dragged,
                   currentOntology, currentClassId, annotationColor, before,
                   dispatched, unnotified, steps, zoomIns,
                   savedTransforms>>

NextTransform ==
    \/ CtxTranslate
    \/ CtxScale
    \/ CtxSetTransform

SpecTransform == Init /\ [][NextTransform]_vars

\* one call applied to a logical point: where the point goes in the
\* coordinates in force before the call
ApplyOp(o, p) ==
    IF o.op = "translate"
    THEN [x |-> p.x + o.dx, y |-> p.y + o.dy]
    ELSE [x |-> MulByScale(p.x, o.clicks), y |-> MulByScale(p.y, o.clicks)]

\* the transform composed by the first k calls of os, applied to p: the call
\* made last acts on the point first
RECURSIVE ForwardFrom(_, _, _)
ForwardFrom(os, k, p) ==
    IF k = 0 THEN p ELSE ForwardFrom(os, k - 1, ApplyOp(os[k], p))

Forward(os, p) == ForwardFrom(os, Len(os), p)

---------------------------------------------------------------------------
(* The environment of SpecOverlap: the events of Spec, a wheel turn too
   long for any scale and the host's assignments of the category, the class
   id and the colour and its calls of removeAnnotations, from the state Spec
   reaches after its sixth event when two annotations are drawn one inside
   the other: a press at (0,0), a move to (300,250), a release, a press, a
   move to (100,100), a release. *)

MaxOverlapEvents == 4

\* a wheel turn of 21 clicks is refused at every scale of the model
OverlapWheelDeltas == {-1, 1, 21}

InitOverlap ==
    /\ currentOntology = "Car"
    /\ currentClassId = 1
    /\ annotationColor = "#FF0000"
    /\ annotations = <<2, 1>>
    /\ objs = <<[NewAnnotation([x |-> 0, y |-> 0], [x |-> Px(300), y |-> Px(250)])
                    EXCEPT !.selected = TRUE],
                NewAnnotation([x |-> Px(300), y |-> Px(250)],
                              [x |-> Px(100), y |-> Px(100)])>>
    /\ isMoving = FALSE
    /\ isResizing = FALSE
    /\ hoveredAnnotation = 1
    /\ hoveredHandle = "null"
    /\ selectedHandle = "null"
    /\ offsetX_start = 0 /\ offsetY_start = 0 /\ offsetX_end = 0 /\ offsetY_end = 0
    /\ movingAnnotation = 0
    /\ isDrawingAnnotation = FALSE
    /\ newAnnotationStart = Null
    /\ lastX = Px(100) /\ lastY = Px(100)
    /\ dragStart = Null
    /\ dragged = "true"
    /\ xform = Identity
    /\ event = [type |-> "mouseup", shiftKey |-> FALSE]
    /\ before = [isDrawingAnnotation |-> TRUE,
                 newAnnotationStart |-> Some([x |-> Px(300), y |-> Px(250)]),
                 length |-> 1, xform |-> Identity]
    /\ dispatched = 1
    /\ unnotified = FALSE
    /\ ops = <<>>
    /\ savedTransforms = <<>>
    /\ steps = 0
    /\ zoomIns = 0

OverlapBudget == steps < MaxOverlapEvents

\* the values the host gives the category: a class name or null
ClassNames == {"Car", "null"}

\* the host assigns the public field currentOntology between two events
SetCurrentOntology(name) ==
    /\ currentOntology' = name
    /\ event' = [type |-> "setCurrentOntology"]
    /\ dispatched' = 0
    /\ UNCHANGED <<annotations, objs, isMoving, isResizing, hoveredAnnotation,
                   hoveredHandle, selectedHandle, offsetX_start, offsetY_start,
                   offsetX_end, offsetY_end, movingAnnotation, isDrawingAnnotation,
                   newAnnotationStart, lastX, lastY, dragStart, dragged, xform,
                   currentClassId, annotationColor>>

OverlapSetCurrentOntology ==
    /\ OverlapBudget
    /\ \E name \in ClassNames : name # currentOntology /\ SetCurrentOntology(name)
    /\ Observe
    /\ steps' = steps + 1
    /\ UNCHANGED <<ops, savedTransforms, zoomIns>>

\* the class ids and colours the host gives, as in the readme
Classes == {[classId |-> 1, color |-> "#FF0000"], [classId |-> 2, color |-> "#00FF00"]}

\* the host assigns the public fields currentClassId and annotationColor
SetCurrentClass(class) ==
    /\ currentClassId' = class.classId
    /\ annotationColor' = class.color
    /\ event' = [type |-> "setCurrentClass"]
    /\ dispatched' = 0
    /\ UNCHANGED <<annotations, objs, isMoving, isResizing, hoveredAnnotation,
                   hoveredHandle, selectedHandle, offsetX_start, offsetY_start,
                   offsetX_end, offsetY_end, movingAnnotation, isDrawingAnnotation,
                   newAnnotationStart, lastX, lastY, dragStart, dragged, xform,
                   currentOntology>>

OverlapSetCurrentClass ==
    /\ OverlapBudget
    /\ \E class \in Classes : class.classId # currentClassId /\ SetCurrentClass(class)
    /\ Observe
    /\ steps' = steps + 1
    /\ UNCHANGED <<ops, savedTransforms, zoomIns>>

\* removeAnnotations(), called by the host
RemoveAnnotations ==
    /\ annotations' = Redraw(<<>>)
    /\ event' = [type |-> "removeAnnotations"]
    /\ dispatched' = 0
    /\ UNCHANGED <<objs, isMoving, isResizing, hoveredAnnotation, hoveredHandle,
                   selectedHandle, offsetX_start, offsetY_start, offsetX_end,
                   offsetY_end, movingAnnotation, isDrawingAnnotation,
                   newAnnotationStart, lastX, lastY, dragStart, dragged, xform,
                   currentOntology, currentClassId, annotationColor>>

OverlapRemoveAnnotations ==
    /\ OverlapBudget
    /\ RemoveAnnotations
    /\ Observe
    /\ steps' = steps + 1
    /\ UNCHANGED <<ops, savedTransforms, zoomIns>>

OverlapMouseDown ==
    /\ OverlapBudget
    /\ \E evt \in PointerEvents : AtPointer(evt) /\ MouseDown(evt)
    /\ Observe
    /\ steps' = steps + 1
    /\ UNCHANGED <<ops, savedTransforms, zoomIns>>

OverlapMouseMove ==
    /\ OverlapBudget
    /\ \E p \in DevicePoints : MouseMove(p)
    /\ Observe
    /\ steps' = steps + 1
    /\ UNCHANGED <<ops, savedTransforms, zoomIns>>

OverlapMouseUp ==
    /\ OverlapBudget
    /\ \E evt \in PointerEvents :
          /\ AtPointer(evt)
          /\ dragged # "true" => Representable(ClickZoom(evt))
          /\ MouseUp(evt)
    /\ Observe
    /\ steps' = steps + 1
    /\ UNCHANGED <<ops, savedTransforms, zoomIns>>

OverlapKeyDown ==
    /\ OverlapBudget
    /\ \E k \in Keys : KeyDown([key |-> k])
    /\ Observe
    /\ steps' = steps + 1
    /\ UNCHANGED <<ops, savedTransforms, zoomIns>>

OverlapWheel ==
    /\ OverlapBudget
    /\ \E d \in OverlapWheelDeltas :
          /\ InZoomRange(xform.n + d) => Representable(d)
          /\ HandleScroll([delta |-> d])
    /\ Observe
    /\ steps' = steps + 1
    /\ UNCHANGED <<ops, savedTransforms, zoomIns>>

OverlapResetTransform ==
    /\ OverlapBudget
    /\ ResetTransform
    /\ Observe
    /\ steps' = steps + 1
    /\ UNCHANGED <<ops, savedTransforms, zoomIns>>

NextOverlap ==
    \/ OverlapMouseDown
    \/ OverlapMouseMove
    \/ OverlapMouseUp
    \/ OverlapKeyDown
    \/ OverlapWheel
    \/ OverlapResetTransform
    \/ OverlapSetCurrentOntology
    \/ OverlapSetCurrentClass
    \/ OverlapRemoveAnnotations

SpecOverlap == InitOverlap /\ [][NextOverlap]_vars

---------------------------------------------------------------------------
(* The environment of SpecHandle: isHoveringOverHandle applied to one
   annotation, whose corners are drawn from a set that holds wide, narrow,
   flat and crossed boxes, at points on, inside and outside the sides of
   the squares of its handles. *)

\* the extents of the box, end minus start, in canvas pixels
HandleExtents == {-40, 0, 15, 29, 30, 31, 200}

\* the distances of the test points from an anchor, in canvas pixels
HandleOffsets == {-16, -15, 0, 15, 16}

InitHandle ==
    /\ currentOntology = "Car"
    /\ currentClassId = 1
    /\ annotationColor = "#FF0000"
    /\ annotations = <<1>>
    /\ \E w \in HandleExtents, h \in HandleExtents :
          objs = <<[NewAnnotation([x |-> Px(100), y |-> Px(100)],
                                  [x |-> Px(100), y |-> Px(100)])
                       EXCEPT !.end = [x |-> Px(100 + w), y |-> Px(100 + h)],
                              !.state = "edited"]>>
    /\ isMoving = FALSE
    /\ isResizing = FALSE
    /\ hoveredAnnotation = 0
    /\ hoveredHandle = "null"
    /\ selectedHandle = "null"
    /\ offsetX_start = 0 /\ offsetY_start = 0 /\ offsetX_end = 0 /\ offsetY_end = 0
    /\ movingAnnotation = 0
    /\ isDrawingAnnotation = FALSE
    /\ newAnnotationStart = Null
    /\ lastX = 0 /\ lastY = 0
    /\ dragStart = Null
    /\ dragged = "true"
    /\ xform = Identity
    /\ event = [type |-> "init"]
    /\ before = [isDrawingAnnotation |-> FALSE, newAnnotationStart |-> Null,
                 length |-> 1, xform |-> Identity]
    /\ dispatched = 0
    /\ unnotified = FALSE
    /\ ops = <<>>
    /\ savedTransforms = <<>>
    /\ steps = 0
    /\ zoomIns = 0

\* the coordinates tried along one axis of a box from lo, extent long
HandleCoordinates(lo, extent) ==
    {a + Px(o) : a \in {lo, lo + extent \div 2, lo + extent}, o \in HandleOffsets}

\* the hover block of mousemove, lines 230-234, on the annotation 1 at the
\* logical point (x, y)
HandleTest ==
    /\ \E x \in HandleCoordinates(getAnnotationDimensions(objs[1]).startX,
                                  getAnnotationDimensions(objs[1]).width),
          y \in HandleCoordinates(getAnnotationDimensions(objs[1]).startY,
                                  getAnnotationDimensions(objs[1]).height) :
          /\ lastX' = x
          /\ lastY' = y
          /\ hoveredAnnotation' = 1
          /\ hoveredHandle' = isHoveringOverHandle(x, y, objs[1])
    /\ event' = [type |-> "isHoveringOverHandle"]
    /\ UNCHANGED <<annotations, objs, isMoving, isResizing, selectedHandle,
                   offsetX_start, offsetY_start, offsetX_end, offsetY_end,
                   movingAnnotation, isDrawingAnnotation, newAnnotationStart,
                   dragStart, dragged, xform, currentOntology, currentClassId,
                   annotationColor, before, dispatched, unnotified, ops, savedTransforms, steps,
                   zoomIns>>

NextHandle == HandleTest

SpecHandle == InitHandle /\ [][NextHandle]_vars

---------------------------------------------------------------------------
(* SpecStack: save and restore among the context operations that
   trackTransforms overrides, called in any order.  Here ops keeps every
   call, save and restore included, and with each save the matrix it found. *)

\* what savedTransforms.pop() returns on an empty array
Undefined == [undefined |-> TRUE]

\* the state the overrides of trackTransforms do not touch
outsideContext ==
    <<annotations, objs, isMoving, isResizing, hoveredAnnotation, hoveredHandle,
      selectedHandle, offsetX_start, offsetY_start, offsetX_end, offsetY_end,
      movingAnnotation, isDrawingAnnotation, newAnnotationStart, lastX, lastY,
      dragStart, dragged, currentOntology, currentClassId, annotationColor,
      before, dispatched, unnotified, steps, zoomIns>>

\* savedTransforms.pop() on the array st: the element returned
Popped(st) == IF st = <<>> THEN Undefined ELSE st[Len(st)]

\* savedTransforms.pop() on the array st: the array left
AfterPop(st) == IF st = <<>> THEN <<>> ELSE SubSeq(st, 1, Len(st) - 1)

\* ctx.save(): xform.translate(0, 0) is a new matrix equal to xform.  On an
\* undefined xform the call throws before it changes anything.
StackSave ==
    /\ Len(ops) < MaxCalls
    /\ xform # Undefined
    /\ savedTransforms' = Append(savedTransforms, Translate(xform, 0, 0))
    /\ ops' = Append(ops, [op |-> "save", m |-> xform])
    /\ event' = [type |-> "save"]
    /\ UNCHANGED xform
    /\ UNCHANGED outsideContext

\* ctx.restore()
StackRestore ==
    /\ Len(ops) < MaxCalls
    /\ xform' = Popped(savedTransforms)
    /\ savedTransforms' = AfterPop(savedTransforms)
    /\ ops' = Append(ops, [op |-> "restore"])
    /\ event' = [type |-> "restore"]
    /\ UNCHANGED outsideContext

\* ctx.translate(dx, dy); throws on an undefined xform
StackTranslate ==
    /\ Len(ops) < MaxCalls
    /\ xform # Undefined
    /\ \E o \in Offsets :
          /\ xform' = Translate(xform, o.dx, o.dy)
          /\ ops' = Append(ops, [op |-> "translate", dx |-> o.dx, dy |-> o.dy])
    /\ event' = [type |-> "translate"]
    /\ UNCHANGED savedTransforms
    /\ UNCHANGED outsideContext

\* ctx.scale(f, f) with f = SCALE_FACTOR^clicks; throws on an undefined xform
StackScale ==
    /\ Len(ops) < MaxCalls
    /\ xform # Undefined
    /\ \E clicks \in {-1, 1} :
          /\ Representable(clicks)
          /\ xform' = Scale(xform, clicks)
          /\ ops' = Append(ops, [op |-> "scale", clicks |-> clicks])
    /\ event' = [type |-> "scale"]
    /\ UNCHANGED savedTransforms
    /\ UNCHANGED outsideContext

\* ctx.setTransform(1, 0, 0, 1, 0, 0): the six fields of xform are assigned;
\* throws on an undefined xform
StackSetTransform ==
    /\ Len(ops) < MaxCalls
    /\ xform # Undefined
    /\ xform' = Identity
    /\ ops' = Append(ops, [op |-> "setTransform"])
    /\ event' = [type |-> "setTransform"]
    /\ UNCHANGED savedTransforms
    /\ UNCHANGED outsideContext

NextStack ==
    \/ StackSave
    \/ StackRestore
    \/ StackTranslate
    \/ StackScale
    \/ StackSetTransform

SpecStack == Init /\ [][NextStack]_vars

---------------------------------------------------------------------------
(* Properties *)

IdsOf(arr) == {arr[i] : i \in DOMAIN arr}

\* the gesture flags are those of Idle
Idle ==
    /\ dragStart = Null
    /\ movingAnnotation = 0
    /\ ~isResizing
    /\ ~isDrawingAnnotation
    /\ newAnnotationStart = Null
    /\ selectedHandle = "null"

\* the logical point under the pointer: its position mapped through the
\* inverse of the current transform
PointerLogical == TransformedPoint(xform, lastX, lastY)

OnePercentWidth == Px(canvas.width) \div 100
OnePercentHeight == Px(canvas.height) \div 100

DeleteKeys == {"Delete", "Backspace"}

(* C1: a release that ends a draw gesture whose extent, between the logical
   point of the press and the logical point under the pointer at the release,
   is at least 1% of the canvas width and of the canvas height adds exactly
   one record to the collection; the record has the componentwise minimum of
   the two points as start and the maximum as end, so start <= end, state
   "unsaved", ID null and the name, class id and color active at the release;
   the records already there are untouched. *)
C1_DrawAddsOneRecord ==
    [][ (event'.type = "mouseup" /\ isDrawingAnnotation) =>
          LET s  == newAnnotationStart[1]
              p  == PointerLogical
              id == Len(objs) + 1
          IN  (Abs(s.x - p.x) >= OnePercentWidth /\ Abs(s.y - p.y) >= OnePercentHeight)
              => /\ Len(annotations') = Len(annotations) + 1
                 /\ IdsOf(annotations') = IdsOf(annotations) \cup {id}
                 /\ id \notin IdsOf(annotations)
                 /\ DOMAIN objs' = 1..id
                 /\ \A i \in DOMAIN objs : objs'[i] = objs[i]
                 /\ objs'[id].start = [x |-> Min(s.x, p.x), y |-> Min(s.y, p.y)]
                 /\ objs'[id].end = [x |-> Max(s.x, p.x), y |-> Max(s.y, p.y)]
                 /\ objs'[id].start.x <= objs'[id].end.x
                 /\ objs'[id].start.y <= objs'[id].end.y
                 /\ objs'[id].state = "unsaved"
                 /\ objs'[id].ID = "null"
                 /\ objs'[id].name = currentOntology
                 /\ objs'[id].class_id = currentClassId
                 /\ objs'[id].annotationColor = annotationColor ]_vars

\* a release has just added the record of a draw from (300,250) back to (100,100)
C1_Witness ==
    /\ event.type = "mouseup"
    /\ before.isDrawingAnnotation
    /\ before.newAnnotationStart = Some([x |-> Px(300), y |-> Px(250)])
    /\ Len(annotations) = before.length + 1
    /\ objs[Len(objs)].start = [x |-> Px(100), y |-> Px(100)]
    /\ objs[Len(objs)].end = [x |-> Px(300), y |-> Px(250)]
    /\ objs[Len(objs)].state = "unsaved"
    /\ lastX = Px(100)

(* C2: a release that ends a draw gesture whose extent is below 1% of the
   canvas width or below 1% of the canvas height leaves the collection with
   the same length and the same records, each unchanged, and leaves the
   machine Idle. *)
C2_SmallDrawDropped ==
    [][ (event'.type = "mouseup" /\ isDrawingAnnotation) =>
          LET s == newAnnotationStart[1]
              p == PointerLogical
          IN  (Abs(s.x - p.x) < OnePercentWidth \/ Abs(s.y - p.y) < OnePercentHeight)
              => /\ Len(annotations') = Len(annotations)
                 /\ IdsOf(annotations') = IdsOf(annotations)
                 /\ objs' = objs
                 /\ Idle' ]_vars

\* a release has just dropped a draw that was wide enough but not high enough,
\* with a record in the collection
C2_Witness ==
    /\ event.type = "mouseup"
    /\ before.isDrawingAnnotation
    /\ Len(annotations) = before.length
    /\ Len(annotations) >= 1
    /\ before.newAnnotationStart = Some([x |-> Px(100), y |-> Px(100)])
    /\ lastX = Px(790)
    /\ lastY = Px(100)
    /\ Idle

(* C3: every annotation of the collection lies within the canvas:
   0 <= start.x, end.x <= canvas.width and 0 <= start.y, end.y <= canvas.height. *)
C3_AnnotationsInCanvas ==
    \A id \in IdsOf(annotations) :
        /\ 0 <= objs[id].start.x /\ objs[id].start.x <= Px(canvas.width)
        /\ 0 <= objs[id].end.x   /\ objs[id].end.x   <= Px(canvas.width)
        /\ 0 <= objs[id].start.y /\ objs[id].start.y <= Px(canvas.height)
        /\ 0 <= objs[id].end.y   /\ objs[id].end.y   <= Px(canvas.height)

(* C4: a Delete or Backspace key event while hoveredAnnotation is non-null
   sets that annotation's state to "deleted", dispatches exactly one
   annotationChanged event and leaves the length of the collection, every
   other record and the gesture flags unchanged; while hoveredAnnotation is
   null it changes nothing of the program's state and dispatches nothing. *)
C4_DeleteKey ==
    [][ (event'.type = "keydown" /\ event'.key \in DeleteKeys) =>
          IF hoveredAnnotation # 0
          THEN /\ objs'[hoveredAnnotation].state = "deleted"
               /\ \A id \in DOMAIN objs : id # hoveredAnnotation => objs'[id] = objs[id]
               /\ dispatched' = 1
               /\ Len(annotations') = Len(annotations)
               /\ IdsOf(annotations') = IdsOf(annotations)
               /\ UNCHANGED <<dragStart, isDrawingAnnotation, newAnnotationStart,
                              isMoving, movingAnnotation, isResizing, selectedHandle>>
          ELSE /\ UNCHANGED progVars
               /\ dispatched' = 0 ]_vars

\* the key has just deleted the hovered annotation in the middle of a move or a
\* resize gesture
C4_Witness ==
    /\ event.type = "keydown"
    /\ event.key = "Backspace"
    /\ hoveredAnnotation # 0
    /\ objs[hoveredAnnotation].state = "deleted"
    /\ dispatched = 1
    /\ movingAnnotation # 0 \/ isResizing

(* C5: the hit test of a pointer-move never returns an annotation whose state
   is "deleted": after a pointer-move outside a resize gesture,
   hoveredAnnotation is null or an annotation that is not deleted. *)
C5_DeletedNeverHit ==
    (event.type = "mousemove" /\ ~isResizing /\ hoveredAnnotation # 0)
        => objs[hoveredAnnotation].state # "deleted"

(* C6: each pointer-move of a move gesture leaves the width end.x - start.x
   and the height end.y - start.y of the annotation being moved as they
   were, so that they stay what they were at the press. *)
C6_MoveKeepsSize ==
    [][ (event'.type = "mousemove" /\ movingAnnotation # 0) =>
          LET a == objs[movingAnnotation]
              b == objs'[movingAnnotation]
          IN  /\ b.end.x - b.start.x = a.end.x - a.start.x
              /\ b.end.y - b.start.y = a.end.y - a.start.y ]_vars

\* the stored coordinates the handle controls
Controls(handle) ==
    CASE handle = "top-left"      -> {"start.x", "start.y"}
      [] handle = "top-right"     -> {"end.x", "start.y"}
      [] handle = "bottom-left"   -> {"start.x", "end.y"}
      [] handle = "bottom-right"  -> {"end.x", "end.y"}
      [] handle = "top-middle"    -> {"start.y"}
      [] handle = "bottom-middle" -> {"end.y"}
      [] handle = "left-middle"   -> {"start.x"}
      [] handle = "right-middle"  -> {"end.x"}
      [] OTHER -> {}

Coordinate(a, c) ==
    CASE c = "start.x" -> a.start.x
      [] c = "start.y" -> a.start.y
      [] c = "end.x"   -> a.end.x
      [] c = "end.y"   -> a.end.y

Coordinates == {"start.x", "start.y", "end.x", "end.y"}

(* C7: each pointer-move of a resize gesture changes only the stored
   coordinates of the target that the active handle controls; the other
   coordinates of the target and every coordinate of every other annotation
   are unchanged. *)
C7_ResizeChangesOnlyControlled ==
    [][ (event'.type = "mousemove" /\ isResizing) =>
          \A id \in DOMAIN objs : \A c \in Coordinates :
              (id # hoveredAnnotation \/ c \notin Controls(selectedHandle))
                  => Coordinate(objs'[id], c) = Coordinate(objs[id], c) ]_vars

(* C8: after each pointer-move of a resize gesture the coordinates of the
   target that the active handle controls equal the logical point under the
   pointer clamped to the canvas, and the target's state is "edited". *)
C8_ResizeFollowsPointer ==
    (event.type = "mousemove" /\ isResizing) =>
        LET a == objs[hoveredAnnotation]
            p == PointerLogical
        IN  /\ a.state = "edited"
            /\ \A c \in Controls(selectedHandle) :
                  Coordinate(a, c) =
                      IF c \in {"start.x", "end.x"}
                      THEN Max(0, Min(p.x, Px(canvas.width)))
                      ELSE Max(0, Min(p.y, Px(canvas.height)))

\* the bottom-right handle of {100,100}-{300,250} has just been dragged to
\* (790,100): end = {790,100} with start unchanged
C8_Witness ==
    /\ event.type = "mousemove"
    /\ isResizing
    /\ selectedHandle = "bottom-right"
    /\ objs[hoveredAnnotation].start = [x |-> Px(100), y |-> Px(100)]
    /\ objs[hoveredAnnotation].end = [x |-> Px(790), y |-> Px(100)]
    /\ objs[hoveredAnnotation].state = "edited"

\* SCALE_FACTOR^n < MAX_ZOOM
BelowMaxZoom(n) == BigLess(ScalePow(n).num, BigMul(ScalePow(n).den, MAX_ZOOM))
\* MIN_ZOOM < SCALE_FACTOR^n
AboveMinZoom(n) ==
    BigLess(BigMul(ScalePow(n).den, MIN_ZOOM_NUM), BigMul(ScalePow(n).num, MIN_ZOOM_DEN))

(* C9: the scale SCALE_FACTOR^n of the tracked transform, which is its scale
   on both axes, stays strictly between MIN_ZOOM and MAX_ZOOM. *)
C9_ScaleWithinZoomBounds == AboveMinZoom(xform.n) /\ BelowMaxZoom(xform.n)

\* a zoom-in has just been refused at the largest scale
C9_Witness ==
    /\ event.type = "wheel"
    /\ event.delta = 3
    /\ ~BelowMaxZoom(xform.n + 3)
    /\ BelowMaxZoom(xform.n + 2)

\* the largest k with SCALE_FACTOR^k < MAX_ZOOM
LargestZoomIn == CHOOSE k \in 0..MaxZoomIns : BelowMaxZoom(k) /\ ~BelowMaxZoom(k + 1)

(* C10: after k consecutive one-click zoom-ins from scale 1 the scale is
   SCALE_FACTOR^k as long as SCALE_FACTOR^k < MAX_ZOOM (1331/1000 for k = 3),
   and from then on it is the largest power of SCALE_FACTOR below MAX_ZOOM,
   for every k up to MaxZoomIns. *)
C10_ConsecutiveZoomIns ==
    zoomIns >= 0 =>
        /\ xform.n = IF BelowMaxZoom(zoomIns) THEN zoomIns ELSE LargestZoomIn
        /\ zoomIns = 3 => ScalePow(xform.n) = [num |-> <<1331>>, den |-> <<1000>>]

\* MaxZoomIns consecutive zoom-ins have been made
C10_Witness == zoomIns = MaxZoomIns /\ xform.n = LargestZoomIn /\ xform.n < zoomIns

\* the clicks of the zoom call the handler makes, 0 if it makes none
ZoomClicks ==
    CASE event'.type = "wheel" -> event'.delta
      [] event'.type = "mouseup" /\ dragged # "true" ->
            IF event'.shiftKey THEN -zoomLevel ELSE zoomLevel
      [] OTHER -> 0

(* C11: every accepted zoom, by the wheel or by a click, under any transform
   left by earlier pans and zooms, leaves the logical point under the pointer,
   transformedPoint(lastX, lastY), unchanged while it multiplies the scale by
   SCALE_FACTOR^clicks. *)
C11_ZoomKeepsAnchor ==
    [][ (ZoomClicks # 0 /\ InZoomRange(xform.n + ZoomClicks)) =>
          /\ PointerLogical' = PointerLogical
          /\ lastX' = lastX /\ lastY' = lastY
          /\ xform'.n = xform.n + ZoomClicks ]_vars

\* the wheel has just zoomed in about a pointer away from the origin, under a
\* transform that an earlier pan or zoom had moved
C11_Witness ==
    /\ event.type = "wheel"
    /\ event.delta = 1
    /\ xform.n = before.xform.n + 1
    /\ before.xform.ox # 0
    /\ lastX # 0
    /\ PointerLogical # [x |-> lastX, y |-> lastY]

(* C12: a release that directly follows a press, with no pointer-move between
   them, calls zoom once: by +zoomLevel clicks when shift is not held at the
   release, by -zoomLevel clicks when it is; so, wherever the candidate scale
   is within the limits, the scale is multiplied by SCALE_FACTOR^clicks. *)
C12_ClickAlwaysZooms ==
    [][ (event.type = "mousedown" /\ event'.type = "mouseup") =>
          LET clicks == IF event'.shiftKey THEN -zoomLevel ELSE zoomLevel
          IN  (InZoomRange(xform.n + clicks) /\ Representable(clicks))
                  => xform'.n = xform.n + clicks ]_vars

TestPoints == {[x |-> x * TransformUnit, y |-> y * TransformUnit] :
                   x \in {0, 1}, y \in {-1, 0}}

(* C13: transformedPoint is the inverse of the forward transform composed by
   any sequence of tracked translate and scale calls: a logical point mapped
   forward through the calls and then through transformedPoint is the point
   itself. *)
C13_TransformedPointInverts ==
    \A p \in TestPoints :
        LET q == Forward(ops, p)
        IN  TransformedPoint(xform, q.x, q.y) = p

\* the matrix is composed of translations on both sides of a scale and moves
\* the points
C13_Witness ==
    /\ Len(ops) = MaxOps
    /\ ops[1].op = "translate"
    /\ ops[2].op = "scale"
    /\ ops[3].op = "translate"
    /\ xform.n # 0
    /\ \A p \in TestPoints : Forward(ops, p) # p

\* the fraction lies in [0, 1]
InUnitInterval(q) == 0 <= q.num /\ q.num <= q.den

(* C14: the record a release creates has start_relativ = (start.x /
   canvas.width, start.y / canvas.height) and end_relativ = (end.x /
   canvas.width, end.y / canvas.height), all four within [0, 1]; the record
   {100,100}-{300,250} of an 800 x 600 canvas has (1/8, 1/6) and (3/8, 5/12). *)
C14_RelativeCoordinates ==
    [][ (event'.type = "mouseup" /\ Len(objs') = Len(objs) + 1) =>
          LET r == objs'[Len(objs')]
          IN  /\ r.start_relativ = [x |-> Frac(r.start.x, Px(canvas.width)),
                                    y |-> Frac(r.start.y, Px(canvas.height))]
              /\ r.end_relativ = [x |-> Frac(r.end.x, Px(canvas.width)),
                                  y |-> Frac(r.end.y, Px(canvas.height))]
              /\ (r.start = [x |-> Px(100), y |-> Px(100)]
                    /\ r.end = [x |-> Px(300), y |-> Px(250)]
                    /\ canvas.width = 800 /\ canvas.height = 600)
                 => /\ r.start_relativ = [x |-> [num |-> 1, den |-> 8],
                                          y |-> [num |-> 1, den |-> 6]]
                    /\ r.end_relativ = [x |-> [num |-> 3, den |-> 8],
                                        y |-> [num |-> 5, den |-> 12]]
              /\ InUnitInterval(r.start_relativ.x) /\ InUnitInterval(r.start_relativ.y)
              /\ InUnitInterval(r.end_relativ.x) /\ InUnitInterval(r.end_relativ.y) ]_vars

\* the annotations of the collection that are not deleted and whose expanded
\* box holds the point
Candidates(pt) ==
    {id \in IdsOf(annotations) :
        objs[id].state # "deleted" /\ InExpandedBox(pt.x, pt.y, objs[id])}

\* the annotation created last among ids: ids are given in creation order
CreatedLast(ids) == CHOOSE id \in ids : \A other \in ids : other <= id

(* C15: when a pointer-move outside a resize gesture puts the pointer inside
   the expanded boxes of two or more annotations that are not deleted, the
   hit test returns the one of them that was created last. *)
C15_LastCreatedWins ==
    [][ (event'.type = "mousemove" /\ ~isResizing) =>
          LET cands == Candidates(PointerLogical')
          IN  Cardinality(cands) >= 2 => hoveredAnnotation' = CreatedLast(cands) ]_vars

(* C16: the collection exposed to the host lists the records in creation
   order, whatever hit tests and redraws have run. *)
C16_CreationOrderKept ==
    \A i, j \in DOMAIN annotations : i < j => annotations[i] < annotations[j]

(* C17: whenever the machine is Idle, no creation, edit of geometry or
   deletion made by a pointer or key event is left without an
   annotationChanged event dispatched after it. *)
C17_ChangesNotifiedWhenIdle == Idle => ~unnotified

\* a move or resize gesture that edited a record has just ended with its
\* release, which notified
C17_Witness ==
    /\ Idle
    /\ ~unnotified
    /\ event.type = "mouseup"
    /\ dispatched = 1
    /\ \E id \in DOMAIN objs : objs[id].state = "edited"

(* C18: every release, whatever gesture it ends and whether or not anything
   changed, dispatches exactly one annotationChanged event and leaves the
   machine Idle: dragStart, movingAnnotation, newAnnotationStart and
   selectedHandle null, isResizing and isDrawingAnnotation false. *)
C18_ReleaseNotifiesAndResets ==
    [][ event'.type = "mouseup" =>
          /\ dispatched' = 1
          /\ dragStart' = Null
          /\ movingAnnotation' = 0
          /\ isResizing' = FALSE
          /\ isDrawingAnnotation' = FALSE
          /\ newAnnotationStart' = Null
          /\ selectedHandle' = "null" ]_vars

\* a release has just ended a move or resize gesture, with the pointer on a
\* corner handle of the edited record
C18_Witness ==
    /\ event.type = "mouseup"
    /\ dispatched = 1
    /\ Idle
    /\ ~before.isDrawingAnnotation
    /\ hoveredAnnotation # 0
    /\ hoveredHandle # "null"
    /\ objs[hoveredAnnotation].state = "edited"
    /\ PointerLogical.x \in {objs[hoveredAnnotation].start.x, objs[hoveredAnnotation].end.x}
    /\ PointerLogical.y \in {objs[hoveredAnnotation].start.y, objs[hoveredAnnotation].end.y}

\* the gesture modes that are active
ActiveModes ==
    {mode \in {"panning", "drawing", "moving", "resizing"} :
        \/ mode = "panning" /\ dragStart # Null
        \/ mode = "drawing" /\ isDrawingAnnotation
        \/ mode = "moving" /\ movingAnnotation # 0
        \/ mode = "resizing" /\ isResizing}

(* C19: at most one of the four gesture modes is active: panning (dragStart
   non-null), drawing (isDrawingAnnotation), moving (movingAnnotation
   non-null), resizing (isResizing). *)
C19_OneModeAtATime == Cardinality(ActiveModes) <= 1

(* C20: resetTransform sets the tracked transform to the identity, so that
   transformedPoint maps every point to itself, and leaves the geometry and
   the state of every annotation, and the membership of the collection, as
   they were. *)
C20_ResetRestoresIdentity ==
    [][ event'.type = "resetTransform" =>
          /\ xform' = Identity
          /\ \A d \in DevicePoints :
                LET x == ToCanvasX(d.offsetX)
                    y == ToCanvasY(d.offsetY)
                IN  TransformedPoint(xform', x, y) = [x |-> x, y |-> y]
          /\ DOMAIN objs' = DOMAIN objs
          /\ \A id \in DOMAIN objs :
                /\ objs'[id].start = objs[id].start
                /\ objs'[id].end = objs[id].end
                /\ objs'[id].state = objs[id].state
          /\ IdsOf(annotations') = IdsOf(annotations)
          /\ Len(annotations') = Len(annotations) ]_vars

\* the view has just been reset from a transform that was scaled and panned,
\* with a record in the collection
C20_Witness ==
    /\ event.type = "resetTransform"
    /\ xform = Identity
    /\ before.xform.n # 0
    /\ before.xform.ox # 0
    /\ Len(annotations) >= 1
    /\ PointerLogical = [x |-> lastX, y |-> lastY]

---------------------------------------------------------------------------
(* Selection, modes and stacking *)

\* the records carrying selected = true
Selected == {id \in DOMAIN objs : objs[id].selected}

\* C21: after every hit test the record marked selected is exactly the one
\* the hit test returned, none when it returned nothing; so at most one
\* record is selected in every reachable state.
C21_SelectedIsHovered ==
    /\ event.type = "mousemove" /\ ~isResizing
          => Selected = {id \in DOMAIN objs : id = hoveredAnnotation}
    /\ Cardinality(Selected) <= 1

\* C22: a press enters the mode of the first rule that matches: the modifier
\* held while not resizing starts a pan, anchored at the press point, and
\* sets no other mode flag; else a hovered handle starts a resize with that
\* handle; else a hovered annotation starts a move of it; else a category
\* starts a draw from the press point; else nothing starts, and the release
\* that follows such a press in Idle adds no record.
C22_PressSelectsMode ==
    [][/\ event'.type = "mousedown" =>
             IF event'.shiftKey /\ ~isResizing
             THEN /\ dragStart' = Some(PointerLogical')
                  /\ UNCHANGED <<isResizing, selectedHandle, movingAnnotation,
                                 isDrawingAnnotation, newAnnotationStart>>
             ELSE IF hoveredAnnotation # 0 /\ hoveredHandle # "null"
             THEN /\ isResizing'
                  /\ selectedHandle' = hoveredHandle
                  /\ UNCHANGED <<dragStart, movingAnnotation, isDrawingAnnotation,
                                 newAnnotationStart>>
             ELSE IF hoveredAnnotation # 0
             THEN /\ movingAnnotation' = hoveredAnnotation
                  /\ UNCHANGED <<dragStart, isResizing, selectedHandle,
                                 isDrawingAnnotation, newAnnotationStart>>
             ELSE IF currentOntology # "null"
             THEN /\ isDrawingAnnotation'
                  /\ newAnnotationStart' = Some(PointerLogical)
                  /\ UNCHANGED <<dragStart, movingAnnotation, isResizing,
                                 selectedHandle>>
             ELSE UNCHANGED <<dragStart, movingAnnotation, isResizing,
                              selectedHandle, isDrawingAnnotation,
                              newAnnotationStart>>
       /\ event.type = "mousedown" /\ Idle /\ event'.type = "mouseup"
             => Len(objs') = Len(objs)]_vars

\* a press with no annotation hovered and no category, which starts nothing
C22_Witness ==
    /\ event.type = "mousedown"
    /\ ~event.shiftKey
    /\ currentOntology = "null"
    /\ hoveredAnnotation = 0
    /\ Len(annotations) = 2
    /\ Idle

\* the point lies on the rectangle painted for the annotation a
Inside(pt, a) ==
    LET d == getAnnotationDimensions(a)
    IN  /\ d.startX <= pt.x /\ pt.x <= d.endX
        /\ d.startY <= pt.y /\ pt.y <= d.endY

\* the annotations redraw paints, of the array arr, whose rectangle holds pt
PaintedAt(pt, arr, os) ==
    {id \in IdsOf(arr) : os[id].state # "deleted" /\ Inside(pt, os[id])}

\* redraw paints the array in the order its reversal leaves it in: the one
\* of PaintedAt painted last, on top of the others
PaintedLast(pt, arr, os) ==
    LET i == CHOOSE i \in DOMAIN arr :
                /\ arr[i] \in PaintedAt(pt, arr, os)
                /\ \A j \in DOMAIN arr : arr[j] \in PaintedAt(pt, arr, os) => j <= i
    IN  arr[i]

\* the step is a handler that ends with a redraw
Redrew ==
    \/ event'.type \in {"mousemove", "resetTransform"}
    \/ event'.type = "wheel" /\ event'.delta # 0
    \/ event'.type = "keydown" /\ dispatched' > 0
    \/ event'.type = "mouseup" /\ (dragged # "true" \/ Len(objs') > Len(objs))

\* C23: at the end of every handler that redraws, when the pointer lies in
\* the overlap of two or more annotations that are not deleted, the hovered
\* annotation is the one the redraw painted last among them.
C23_HoveredIsPaintedLast ==
    [][Redrew /\ Cardinality(PaintedAt(PointerLogical', annotations', objs')) >= 2
          => hoveredAnnotation' = PaintedLast(PointerLogical', annotations', objs')]_vars

\* C24: the state "deleted" is absorbing: no later event changes the state
\* or the geometry of a deleted record, the pointer-moves of a move or a
\* resize in progress when the key was pressed included.
C24_DeletedIsAbsorbing ==
    [][\A id \in DOMAIN objs :
          objs[id].state = "deleted"
             => /\ objs'[id].state = "deleted"
                /\ objs'[id].start = objs[id].start
                /\ objs'[id].end = objs[id].end]_vars

\* a coordinate of the move lies strictly between the edges of the canvas, so
\* that the clamp of lines 254-257 leaves it alone
Unclamped(a) ==
    /\ \A v \in {a.start.x, a.end.x} : 0 < v /\ v < Px(canvas.width)
    /\ \A v \in {a.start.y, a.end.y} : 0 < v /\ v < Px(canvas.height)

\* C25: during a move, under any pan and zoom and while no coordinate is
\* clamped, a pointer-move displaces the moved annotation, in logical space,
\* by the displacement of the logical point under the pointer.
C25_MoveFollowsLogicalPointer ==
    [][(/\ event'.type = "mousemove"
        /\ movingAnnotation # 0
        /\ ~isResizing
        /\ dragStart = Null
        /\ Unclamped(objs[movingAnnotation])
        /\ Unclamped(objs'[movingAnnotation]))
          => LET a == objs[movingAnnotation]
                 b == objs'[movingAnnotation]
             IN  /\ b.start.x - a.start.x = PointerLogical'.x - PointerLogical.x
                 /\ b.start.y - a.start.y = PointerLogical'.y - PointerLogical.y
                 /\ b.end.x - a.end.x = PointerLogical'.x - PointerLogical.x
                 /\ b.end.y - a.end.y = PointerLogical'.y - PointerLogical.y]_vars

\* C26: a zoom whose candidate scale is not strictly between MIN_ZOOM and
\* MAX_ZOOM leaves the tracked transform as it was: the same scale and the
\* same translation after the call as before it.
C26_RefusedZoomIsNoOp ==
    [][ZoomClicks # 0 /\ ~InZoomRange(xform.n + ZoomClicks) => xform' = xform]_vars

\* the wheel has asked for a scale too large, with the pointer away from the
\* origin and under a view that an earlier zoom or pan had moved
C26_Witness ==
    /\ event.type = "wheel"
    /\ ~InZoomRange(before.xform.n + event.delta)
    /\ before.xform.n # 0
    /\ before.xform.ox # 0
    /\ lastX # 0
    /\ xform = before.xform

\* C27: during a pan, after each pointer-move the logical point under the
\* pointer is the anchor captured at the press; the move changes the
\* translation only, not the scale, and no record's geometry or state.
C27_PanKeepsAnchor ==
    [][event'.type = "mousemove" /\ dragStart # Null
          => /\ PointerLogical' = dragStart[1]
             /\ xform'.n = xform.n
             /\ \A id \in DOMAIN objs :
                   /\ objs'[id].start = objs[id].start
                   /\ objs'[id].end = objs[id].end
                   /\ objs'[id].state = objs[id].state]_vars

\* C28: from the press that starts a resize to the release that ends it, the
\* target and the handle stay the same: the hover is not recomputed,
\* selectedHandle keeps its value and every pointer-move edits that target.
C28_ResizeKeepsTarget ==
    [][isResizing /\ event'.type # "mouseup"
          => /\ isResizing'
             /\ hoveredAnnotation' = hoveredAnnotation
             /\ hoveredHandle' = hoveredHandle
             /\ selectedHandle' = selectedHandle
             /\ event'.type = "mousemove"
                   => /\ objs'[hoveredAnnotation].state = "edited"
                      /\ \A id \in DOMAIN objs \ {hoveredAnnotation, movingAnnotation} :
                            objs'[id] = objs[id]]_vars

\* a pointer-move of a resize has ended where the hit test would have
\* returned another annotation than the target
C28_Witness ==
    /\ isResizing
    /\ event.type = "mousemove"
    /\ hoveredAnnotation # 0
    /\ selectedHandle = hoveredHandle
    /\ LET hit == isHoveringOverAnnotation(PointerLogical.x, PointerLogical.y,
                                           annotations, objs)
       IN  hit.annotation \notin {0, hoveredAnnotation}

---------------------------------------------------------------------------
(* Handles *)

\* the anchor of a handle on the box of smallest and largest coordinates
Anchor(handle, a) ==
    LET d == getAnnotationDimensions(a)
    IN  [x |-> CASE handle \in {"top-left", "bottom-left", "left-middle"} -> d.startX
                 [] handle \in {"top-right", "bottom-right", "right-middle"} -> d.endX
                 [] OTHER -> (d.startX + d.endX) \div 2,
         y |-> CASE handle \in {"top-left", "top-right", "top-middle"} -> d.startY
                 [] handle \in {"bottom-left", "bottom-right", "bottom-middle"} -> d.endY
                 [] OTHER -> (d.startY + d.endY) \div 2]

\* the point lies in the square of the handle, its sides included
InSquare(pt, handle, a) ==
    /\ Abs(pt.x - Anchor(handle, a).x) <= Px(HANDLE_SIZE)
    /\ Abs(pt.y - Anchor(handle, a).y) <= Px(HANDLE_SIZE)

\* the first handle, in the order of Handles, whose square holds the point
FirstHandleAt(pt, a) ==
    IF \E i \in DOMAIN Handles : InSquare(pt, Handles[i], a)
    THEN Handles[CHOOSE i \in DOMAIN Handles :
                    /\ InSquare(pt, Handles[i], a)
                    /\ \A j \in 1..(i - 1) : ~InSquare(pt, Handles[j], a)]
    ELSE "null"

\* C29: isHoveringOverHandle returns a handle exactly when the point lies in
\* the square of half-side HANDLE_SIZE, sides included, around the anchor of
\* that handle on the box of smallest and largest coordinates, the first one
\* in the order top-left, top-right, bottom-left, bottom-right, top-middle,
\* bottom-middle, left-middle, right-middle when several hold the point, and
\* null exactly when no square holds it.
C29_HandleHitTest ==
    event.type = "isHoveringOverHandle"
       => hoveredHandle = FirstHandleAt(PointerLogical, objs[1])

\* on a box with crossed corners, a point on the side of the square of the
\* top-right handle that the square of the top-middle handle holds as well
C29_Witness ==
    /\ event.type = "isHoveringOverHandle"
    /\ objs[1].start.x > objs[1].end.x
    /\ hoveredHandle = "top-right"
    /\ InSquare(PointerLogical, "top-middle", objs[1])
    /\ PointerLogical.x = Anchor("top-right", objs[1]).x - Px(HANDLE_SIZE)

\* C30: after each pointer-move of a resize, on any annotation the program
\* reaches, one with crossed stored corners included, the edge or corner of
\* the box of smallest and largest coordinates where the grabbed handle is
\* hit-tested and drawn lies at the pointer, clamped to the canvas.
C30_GrabbedEdgeFollowsPointer ==
    (event.type = "mousemove" /\ isResizing) =>
        LET a == objs[hoveredAnnotation]
            p == PointerLogical
        IN  /\ selectedHandle \notin {"top-middle", "bottom-middle"}
                  => Anchor(selectedHandle, a).x = Clamp(p.x, Px(canvas.width))
            /\ selectedHandle \notin {"left-middle", "right-middle"}
                  => Anchor(selectedHandle, a).y = Clamp(p.y, Px(canvas.height))

---------------------------------------------------------------------------
(* Records and references *)

\* the fields of a record written once, when it is created
CreationFields == {"name", "class_id", "annotationColor", "ID",
                   "start_relativ", "end_relativ"}

\* C31: no step changes the name, class_id, annotationColor, ID,
\* start_relativ or end_relativ of an existing record: not a move, a resize,
\* a delete, a zoom, a pan or a reset of the view, nor the host changing the
\* category, the class id or the colour; the relative coordinates keep the
\* values of the creation after the geometry is edited.
C31_CreationFieldsKept ==
    [][\A id \in DOMAIN objs : \A f \in CreationFields :
          objs'[id][f] = objs[id][f]]_vars

\* a record moved after the host changed the category, the class id and the
\* colour: its relative coordinates are no longer those of its corners
C31_Witness ==
    \E id \in DOMAIN objs :
       /\ event.type = "mousemove"
       /\ id = movingAnnotation
       /\ objs[id].state = "edited"
       /\ objs[id].name # currentOntology
       /\ objs[id].class_id # currentClassId
       /\ objs[id].annotationColor # annotationColor
       /\ objs[id].start_relativ # [x |-> Frac(objs[id].start.x, Px(canvas.width)),
                                    y |-> Frac(objs[id].start.y, Px(canvas.height))]

\* the step acts on the hovered annotation: a press that starts a move or a
\* resize of it, or a delete key
ActsOnHovered ==
    /\ hoveredAnnotation # 0
    /\ \/ event'.type = "mousedown" /\ ~(event'.shiftKey /\ ~isResizing)
       \/ event'.type = "keydown" /\ event'.key \in DeleteKeys

\* C32: whenever a press starts a move or a resize, or a delete key acts, the
\* expanded box of the target, with its current geometry, holds the logical
\* point under the pointer under the current transform: the hover acted on
\* is not stale.
C32_HoverNotStale ==
    [][ActsOnHovered
          => InExpandedBox(PointerLogical.x, PointerLogical.y,
                           objs[hoveredAnnotation])]_vars

\* C33: hoveredAnnotation and movingAnnotation, when they are not null, are
\* members of the annotations collection, after removeAnnotations() too; so
\* no press, pointer-move or delete key edits a record, or notifies about
\* one, that the collection no longer holds.
C33_ReferencesAreMembers ==
    /\ hoveredAnnotation # 0 => hoveredAnnotation \in IdsOf(annotations)
    /\ movingAnnotation # 0 => movingAnnotation \in IdsOf(annotations)

\* the annotations redraw paints with their handles
DrawnWithHandles ==
    {id \in IdsOf(annotations) : objs[id].state # "deleted" /\ objs[id].selected}

\* C34: redraw never reads the colour of a null hoveredAnnotation: whenever
\* an annotation of the collection that is not deleted has selected = true,
\* so that redraw paints its handles with setHandleColor, hoveredAnnotation
\* is not null.
C34_HandlesHaveHovered ==
    DrawnWithHandles # {} => hoveredAnnotation # 0

\* after a pointer-move, handles are painted on an annotation that is not
\* the hovered one, with the colour of the hovered one
C34_Witness ==
    /\ event.type = "mousemove"
    /\ hoveredAnnotation # 0
    /\ DrawnWithHandles \ {hoveredAnnotation} # {}

---------------------------------------------------------------------------
(* The stack of saved transforms *)

\* the position in the calls os of the save that a restore made after the
\* first i of them matches, depth restores further in being unmatched yet;
\* 0 when there is none
RECURSIVE MatchingSaveFrom(_, _, _)
MatchingSaveFrom(os, i, depth) ==
    IF i = 0 THEN 0
    ELSE IF os[i].op = "save"
         THEN IF depth = 0 THEN i ELSE MatchingSaveFrom(os, i - 1, depth - 1)
         ELSE IF os[i].op = "restore"
              THEN MatchingSaveFrom(os, i - 1, depth + 1)
              ELSE MatchingSaveFrom(os, i - 1, depth)

MatchingSave(os) == MatchingSaveFrom(os, Len(os), 0)

\* C35: the tracked transform follows stack semantics: a restore() that
\* matches a save(), whatever translate, scale and setTransform calls and
\* properly nested save/restore pairs came between, makes the tracked matrix
\* the matrix that save found; and a restore() with no matching save leaves
\* the tracked matrix defined and unchanged.
C35_RestoreFollowsStack ==
    [][event'.type = "restore" =>
          IF MatchingSave(ops) # 0
          THEN xform' = ops[MatchingSave(ops)].m
          ELSE xform' # Undefined /\ xform' = xform]_vars

---------------------------------------------------------------------------
(* The length of the collection *)

UserEvents == {"mousedown", "mousemove", "mouseup", "keydown", "wheel"}

\* C36: no pointer, key or wheel event removes a record from the collection:
\* every record stays and the length does not decrease; the length grows, by
\* exactly one, only at the release that ends a draw gesture whose extent
\* passes the minimum size check; only removeAnnotations() makes the
\* collection shorter, and it empties it.
C36_OnlyRemoveAnnotationsRemoves ==
    [][/\ event'.type \in UserEvents =>
             /\ IdsOf(annotations) \subseteq IdsOf(annotations')
             /\ Len(annotations') \in {Len(annotations), Len(annotations) + 1}
             /\ Len(annotations') = Len(annotations) + 1
                   <=> (event'.type = "mouseup" /\ DrawAccepted(event'))
       /\ Len(annotations') < Len(annotations) =>
             event'.type = "removeAnnotations" /\ annotations' = <<>>]_vars

\* a release has just added a third record to the two that were there
C36_Witness ==
    /\ event.type = "mouseup"
    /\ before.isDrawingAnnotation
    /\ before.length = 2
    /\ Len(annotations) = 3
    /\ IdsOf(annotations) = {1, 2, 3}

=============================================================================
